---------------------------- MODULE Spec2Model ----------------------------
(***************************************************************************)
(* Website Builder server (src/server.py): the component registry, the     *)
(* project store and the page composer, with their MCP tools and HTTP      *)
(* routes.                                                                 *)
(*                                                                         *)
(* Texts on which the code does character work (markup, prop values,       *)
(* stylesheets, scripts, the generated page) are sequences of symbols.  A  *)
(* symbol is either one of the brace characters "{" and "}" or a maximal   *)
(* run of brace-free text kept as one unit ("<h1>", "title", "Welcome").   *)
(* str.replace looks for "{{" + name + "}}", so every match starts and     *)
(* ends on brace symbols and spans exactly one name symbol.                *)
(***************************************************************************)
EXTENDS Integers, Sequences, FiniteSets, TLC

VARIABLES component_registry, active_projects, cache_file, registry_url,
          project_dirs, now, result, threads

vars == <<component_registry, active_projects, cache_file, registry_url,
          project_dirs, now, result, threads>>

(***************************************************************************)
(* Bounds of the model.                                                    *)
(***************************************************************************)
MaxUuids == 3
MaxClock == 1

(***************************************************************************)
(* Python values.                                                          *)
(***************************************************************************)
None == [t |-> "none"]
StrV(s) == [t |-> "str", s |-> s]
IntV(n) == [t |-> "int", n |-> n]
DictV(f) == [t |-> "dict", d |-> f]

DigitChar == <<"0", "1", "2", "3", "4", "5", "6", "7", "8", "9">>

RECURSIVE IntToStr(_)
IntToStr(n) ==
    IF n < 0 THEN <<"-">> \o IntToStr(0 - n)
    ELSE IF n < 10 THEN <<DigitChar[n + 1]>>
    ELSE IntToStr(n \div 10) \o <<DigitChar[(n % 10) + 1]>>

\* str(value)
py_str(v) ==
    CASE v.t = "none" -> <<"None">>
      [] v.t = "str" -> v.s
      [] v.t = "int" -> IntToStr(v.n)

\* truth value of an Optional[str]: None and "" are false
Truthy(v) ==
    CASE v.t = "none" -> FALSE
      [] v.t = "str" -> v.s # <<>>
      [] v.t = "int" -> v.n # 0
      [] v.t = "dict" -> DOMAIN v.d # {}

\* str.replace(old, new): leftmost non-overlapping occurrences, old non-empty
RECURSIVE Replace(_, _, _)
Replace(s, old, new) ==
    IF Len(s) < Len(old) THEN s
    ELSE IF SubSeq(s, 1, Len(old)) = old
         THEN new \o Replace(SubSeq(s, Len(old) + 1, Len(s)), old, new)
         ELSE <<Head(s)>> \o Replace(Tail(s), old, new)

\* f"{{{{{prop_name}}}}}"
Placeholder(prop_name) == <<"{", "{", prop_name, "}", "}">>

\* "\n".join(parts)
RECURSIVE Join(_)
Join(parts) ==
    IF parts = <<>> THEN <<>>
    ELSE IF Len(parts) = 1 THEN parts[1]
    ELSE parts[1] \o <<"\n">> \o Join(Tail(parts))

(***************************************************************************)
(* Component models.                                                       *)
(***************************************************************************)
ComponentProp(name, type, default, required) ==
    [name |-> name, type |-> type, default |-> default, required |-> required,
     description |-> None]

\* props is the dict of the component in insertion order: <<key, ComponentProp>>
Component(id, name, category, description, html, css, js, props, tags) ==
    [id |-> id, name |-> name, category |-> category, html |-> html,
     css |-> css, js |-> js, props |-> props, dependencies |-> <<>>,
     version |-> "1.0.0", description |-> description, tags |-> tags]

ComponentRegistry(components, last_updated) ==
    [components |-> components, last_updated |-> last_updated,
     version |-> "1.0.0"]

HeroHtml ==
    <<"<div class=\"hero-section\"><div class=\"hero-content\"><h1>">>
    \o Placeholder("title") \o <<"</h1><p>">>
    \o Placeholder("subtitle") \o <<"</p><button class=\"cta-button\">">>
    \o Placeholder("buttonText")
    \o <<"</button></div><div class=\"hero-background\" style=\"background-image: url('">>
    \o Placeholder("backgroundImage") \o <<"')\"></div></div>">>

NavbarHtml ==
    <<"<nav class=\"navbar\"><div class=\"nav-container\"><div class=\"nav-logo\"><img src=\"">>
    \o Placeholder("logoUrl") \o <<"\" alt=\"">>
    \o Placeholder("brandName") \o <<"\" /></div><ul class=\"nav-menu\">">>
    \o Placeholder("menuItems")
    \o <<"</ul><div class=\"nav-toggle\"><span></span></div></div></nav>">>

sample_components ==
    << Component("hero-section-001", "Hero Section", "sections",
                 "A prominent hero section with title and call-to-action",
                 HeroHtml, StrV(<<".hero-section rules">>), None,
                 << <<"title", ComponentProp("title", "string", StrV(<<"Welcome">>), TRUE)>>,
                    <<"subtitle", ComponentProp("subtitle", "string",
                                      StrV(<<"Your amazing subtitle here">>), FALSE)>>,
                    <<"buttonText", ComponentProp("buttonText", "string",
                                      StrV(<<"Get Started">>), FALSE)>>,
                    <<"backgroundImage", ComponentProp("backgroundImage", "url",
                                      StrV(<<>>), FALSE)>> >>,
                 <<"hero", "landing", "call-to-action">>),
       Component("navbar-001", "Navigation Bar", "navigation",
                 "Responsive navigation bar with logo and menu items",
                 NavbarHtml, StrV(<<".navbar rules">>),
                 StrV(<<"nav-toggle click handler">>),
                 << <<"brandName", ComponentProp("brandName", "string",
                                      StrV(<<"My Brand">>), TRUE)>>,
                    <<"logoUrl", ComponentProp("logoUrl", "url", StrV(<<>>), FALSE)>>,
                    <<"menuItems", ComponentProp("menuItems", "html",
                                      StrV(<<"<li><a href=\"#home\">Home</a></li><li><a href=\"#about\">About</a></li><li><a href=\"#contact\">Contact</a></li>">>),
                                      FALSE)>> >>,
                 <<"navigation", "header", "menu", "responsive">>) >>


(***************************************************************************)
(* A snapshot left in the cache file by another deployment of the server:  *)
(* a restyled navbar-001 (same props, other markup, with a placeholder no  *)
(* prop fills) and pair-001, which has two required props (one without a   *)
(* default), an optional prop without a default, the navbar's stylesheet   *)
(* text and an empty script.                                               *)
(***************************************************************************)
snapshot_components ==
    << Component("navbar-001", "Navigation Bar", "navigation", "Restyled navigation bar",
                 <<"<nav>">> \o Placeholder("brandName") \o <<"<ul>">>
                 \o Placeholder("menuItems") \o <<"</ul>">> \o Placeholder("q")
                 \o <<"</nav>">>,
                 StrV(<<".shared rules">>), StrV(<<"nav-toggle click handler">>),
                 sample_components[2].props,
                 <<"navigation">>),
       Component("pair-001", "Pair", "content", "Two values side by side",
                 Placeholder("a") \o <<"-">> \o Placeholder("b") \o Placeholder("note"),
                 StrV(<<".shared rules">>), StrV(<<>>),
                 << <<"a", ComponentProp("a", "string", None, TRUE)>>,
                    <<"b", ComponentProp("b", "number", StrV(<<"d">>), TRUE)>>,
                    <<"note", ComponentProp("note", "string", None, FALSE)>> >>,
                 <<"pair">>) >>

(***************************************************************************)
(* The cache file and the registry snapshot in it.                         *)
(***************************************************************************)
\* datetime.isoformat() and its parse by pydantic
IsoFormat(ts) == IF ts = None THEN None ELSE StrV(<<"T", ts.n>>)
\* variant: the parse keeps the date and drops the time of day
ParseDatetime_Date(v) == IF v = None THEN None ELSE IntV(0)

ParseDatetime(v) == IF v = None THEN None ELSE IntV(v.s[2])

\* component_registry.model_dump_json()
model_dump_json(registry) ==
    [components |-> registry.components,
     last_updated |-> IsoFormat(registry.last_updated),
     version |-> registry.version]

\* ComponentRegistry(**json.loads(text))
ParseRegistry(data) ==
    [components |-> data.components,
     last_updated |-> ParseDatetime(data.last_updated),
     version |-> data.version]

NoFile == [exists |-> FALSE]
CorruptFile == [exists |-> TRUE, valid |-> FALSE]
SnapshotFile(data) == [exists |-> TRUE, valid |-> TRUE, data |-> data]

ForeignSnapshot ==
    SnapshotFile(model_dump_json(ComponentRegistry(snapshot_components, IntV(0))))

\* what the cache file can hold when the server starts
CacheFiles == {NoFile, CorruptFile, ForeignSnapshot}

RegistryUrls == {"", "https://registry.example/components.json"}

(***************************************************************************)
(* Arguments of the calls.                                                 *)
(***************************************************************************)
EmptyDict == [k \in {} |-> None]

\* <<k1, v1, k2, v2, ...>> as a dict
MkDict(kv) ==
    [k \in {kv[i] : i \in {j \in 1..Len(kv) : j % 2 = 1}} |->
        kv[(CHOOSE i \in {j \in 1..Len(kv) : j % 2 = 1} : kv[i] = k) + 1]]

CallerProps ==
    {None,
     DictV(MkDict(<<"brandName", StrV(<<"Acme">>), "logoUrl", StrV(<<"logo.png">>),
                    "a", StrV(<<"x">>)>>)),
     DictV(MkDict(<<"a", StrV(Placeholder("b")), "b", IntV(7),
                    "zz", StrV(<<"1">>)>>))}

ProjectNames == {"Project_0"}

NoSuchProject == 0
ProjectIdArgs == DOMAIN active_projects \cup {NoSuchProject}

ComponentIdArgs == {"navbar-001", "pair-001"}

Omitted == [given |-> FALSE]
Given(v) == [given |-> TRUE, v |-> v]
SectionArgs == {Omitted, Given("footer")}

\* variant: the default whatever the caller gave
OrDefault_Always(arg, default) == default

\* a parameter with a default value
OrDefault(arg, default) == IF arg.given THEN arg.v ELSE default

(***************************************************************************)
(* Helpers for ordered dicts kept as sequences of <<key, value>>.          *)
(***************************************************************************)
Keys(items) == {items[i][1] : i \in 1..Len(items)}
Get(items, k) == items[CHOOSE i \in 1..Len(items) : items[i][1] = k][2]

Min(S) == CHOOSE x \in S : \A y \in S : x <= y

\* next((c for c in components if c.id == component_id), None)
FindComponent(components, component_id) ==
    LET idx == {i \in 1..Len(components) : components[i].id = component_id}
    IN  IF idx = {} THEN None ELSE components[Min(idx)]


(***************************************************************************)
(* add_component_to_project: prop validation.                              *)
(***************************************************************************)
\* props = props or {}
PropsOrEmpty(props) == IF Truthy(props) THEN props.d ELSE EmptyDict

\* variant: a required prop the caller left out takes its default when it
\* has one
RECURSIVE ValidateProps_DefaultForRequired(_, _, _)
ValidateProps_DefaultForRequired(items, props, validated_props) ==
    IF items = <<>> THEN [ok |-> TRUE, props |-> validated_props]
    ELSE LET prop_name == Head(items)[1]
             prop_config == Head(items)[2]
         IN  IF prop_name \in DOMAIN props
             THEN ValidateProps_DefaultForRequired(Tail(items), props,
                      Append(validated_props, <<prop_name, props[prop_name]>>))
             ELSE IF prop_config.required /\ prop_config.default = None
             THEN [ok |-> FALSE, prop_name |-> prop_name]
             ELSE ValidateProps_DefaultForRequired(Tail(items), props,
                      Append(validated_props, <<prop_name, prop_config.default>>))

\* variant: an optional prop the caller left out is stored as None
RECURSIVE ValidateProps_NoneForOmitted(_, _, _)
ValidateProps_NoneForOmitted(items, props, validated_props) ==
    IF items = <<>> THEN [ok |-> TRUE, props |-> validated_props]
    ELSE LET prop_name == Head(items)[1]
             prop_config == Head(items)[2]
         IN  IF prop_name \in DOMAIN props
             THEN ValidateProps_NoneForOmitted(Tail(items), props,
                      Append(validated_props, <<prop_name, props[prop_name]>>))
             ELSE IF prop_config.required
             THEN [ok |-> FALSE, prop_name |-> prop_name]
             ELSE ValidateProps_NoneForOmitted(Tail(items), props,
                      Append(validated_props, <<prop_name, None>>))

\* the loop over component.props.items(); stops at the first required prop
\* the caller did not give
RECURSIVE ValidateProps(_, _, _)
ValidateProps(items, props, validated_props) ==
    IF items = <<>> THEN [ok |-> TRUE, props |-> validated_props]
    ELSE LET prop_name == Head(items)[1]
             prop_config == Head(items)[2]
         IN  IF prop_name \in DOMAIN props
             THEN ValidateProps(Tail(items), props,
                                Append(validated_props, <<prop_name, props[prop_name]>>))
             ELSE IF prop_config.required
             THEN [ok |-> FALSE, prop_name |-> prop_name]
             ELSE ValidateProps(Tail(items), props,
                                Append(validated_props, <<prop_name, prop_config.default>>))

ComponentInstance(id, component_id, section, props, added_at) ==
    [id |-> id, component_id |-> component_id, section |-> section,
     props |-> props, added_at |-> added_at]

(***************************************************************************)
(* generate_project_html: the page composer.                               *)
(***************************************************************************)
\* for prop_name, prop_value in props.items(): html = html.replace(...)
RECURSIVE ApplyProps(_, _)
ApplyProps(html, props) ==
    IF props = <<>> THEN html
    ELSE ApplyProps(Replace(html, Placeholder(Head(props)[1]), py_str(Head(props)[2])),
                    Tail(props))

\* variant: the scan of the instances ends at the first one whose component
\* is not in the registry
RECURSIVE CollectComponents_StopAtMissing(_, _)
CollectComponents_StopAtMissing(instances, registry_components) ==
    IF instances = <<>> THEN <<>>
    ELSE LET comp_instance == Head(instances)
             component == FindComponent(registry_components, comp_instance.component_id)
         IN  IF component # None
             THEN <<[instance |-> comp_instance, component |-> component,
                     rendered_html |-> ApplyProps(component.html, comp_instance.props)]>>
                  \o CollectComponents_StopAtMissing(Tail(instances), registry_components)
             ELSE <<>>

\* the instances whose component is in the registry, with their markup
RECURSIVE CollectComponents(_, _)
CollectComponents(instances, registry_components) ==
    IF instances = <<>> THEN <<>>
    ELSE LET comp_instance == Head(instances)
             component == FindComponent(registry_components, comp_instance.component_id)
             rest == CollectComponents(Tail(instances), registry_components)
         IN  IF component # None
             THEN <<[instance |-> comp_instance, component |-> component,
                     rendered_html |-> ApplyProps(component.html, comp_instance.props)]>>
                  \o rest
             ELSE rest

\* variant: a new section goes in front of the ones met before
SectionsAppend_Front(sections, section, comp) ==
    IF section \in Keys(sections)
    THEN [i \in 1..Len(sections) |->
            IF sections[i][1] = section
            THEN <<section, Append(sections[i][2], comp)>>
            ELSE sections[i]]
    ELSE << <<section, <<comp>>>> >> \o sections

\* sections[section].append(comp), a new key going to the end of the dict
SectionsAppend(sections, section, comp) ==
    IF section \in Keys(sections)
    THEN [i \in 1..Len(sections) |->
            IF sections[i][1] = section
            THEN <<section, Append(sections[i][2], comp)>>
            ELSE sections[i]]
    ELSE Append(sections, <<section, <<comp>>>>)

RECURSIVE GroupBySection(_, _)
GroupBySection(components, sections) ==
    IF components = <<>> THEN sections
    ELSE GroupBySection(Tail(components),
                        SectionsAppend(sections, Head(components).instance.section,
                                       Head(components)))

\* variant: the title carries the project's id
HeadParts_ById(project) ==
    << <<"<!DOCTYPE html>">>,
       <<"<html lang=\"en\">">>,
       <<"<head>">>,
       <<"    <meta charset=\"UTF-8\">">>,
       <<"    <meta name=\"viewport\" content=\"width=device-width, initial-scale=1.0\">">>,
       <<"    <title>">> \o IntToStr(project.id) \o <<"</title>">>,
       <<"    <style>">>,
       <<"        body { margin: 0; font-family: Arial, sans-serif; }">>,
       <<"        .section { min-height: 100vh; }">>,
       <<"    </style>">> >>

HeadParts(project) ==
    << <<"<!DOCTYPE html>">>,
       <<"<html lang=\"en\">">>,
       <<"<head>">>,
       <<"    <meta charset=\"UTF-8\">">>,
       <<"    <meta name=\"viewport\" content=\"width=device-width, initial-scale=1.0\">">>,
       <<"    <title>", project.name, "</title>">>,
       <<"    <style>">>,
       <<"        body { margin: 0; font-family: Arial, sans-serif; }">>,
       <<"        .section { min-height: 100vh; }">>,
       <<"    </style>">> >>

\* variant: one stylesheet block per rendered instance
RECURSIVE CssParts_NoDedup(_, _)
CssParts_NoDedup(components, css_added) ==
    IF components = <<>> THEN <<>>
    ELSE LET css == Head(components).component.css
         IN  IF Truthy(css)
             THEN << <<"    <style>">> \o py_str(css) \o <<"</style>">> >>
                  \o CssParts_NoDedup(Tail(components), css_added \cup {css})
             ELSE CssParts_NoDedup(Tail(components), css_added)

RECURSIVE CssParts(_, _)
CssParts(components, css_added) ==
    IF components = <<>> THEN <<>>
    ELSE LET css == Head(components).component.css
         IN  IF Truthy(css) /\ css \notin css_added
             THEN << <<"    <style>">> \o py_str(css) \o <<"</style>">> >>
                  \o CssParts(Tail(components), css_added \cup {css})
             ELSE CssParts(Tail(components), css_added)

RECURSIVE RenderedParts(_)
RenderedParts(section_components) ==
    IF section_components = <<>> THEN <<>>
    ELSE << <<"        ">> \o Head(section_components).rendered_html >>
         \o RenderedParts(Tail(section_components))

RECURSIVE SectionParts(_)
SectionParts(sections) ==
    IF sections = <<>> THEN <<>>
    ELSE << <<"    <section class=\"section\" id=\"", Head(sections)[1], "\">">> >>
         \o RenderedParts(Head(sections)[2])
         \o << <<"    </section>">> >>
         \o SectionParts(Tail(sections))

RECURSIVE JsParts(_, _)
JsParts(components, js_added) ==
    IF components = <<>> THEN <<>>
    ELSE LET js == Head(components).component.js
         IN  IF Truthy(js) /\ js \notin js_added
             THEN << <<"    <script>">> \o py_str(js) \o <<"</script>">> >>
                  \o JsParts(Tail(components), js_added \cup {js})
             ELSE JsParts(Tail(components), js_added)

\* variant: the script blocks are put into the head, after the stylesheets
ComposePage_ScriptsInHead(project, components) ==
    LET sections == GroupBySection(components, <<>>)
        html_parts == HeadParts(project)
                      \o CssParts(components, {})
                      \o JsParts(components, {})
                      \o << <<"</head>">>, <<"<body>">> >>
                      \o SectionParts(sections)
                      \o << <<"</body>">>, <<"</html>">> >>
    IN  Join(html_parts)

\* the page made of the components collected for a project
ComposePage(project, components) ==
    LET sections == GroupBySection(components, <<>>)
        html_parts == HeadParts(project)
                      \o CssParts(components, {})
                      \o << <<"</head>">>, <<"<body>">> >>
                      \o SectionParts(sections)
                      \o JsParts(components, {})
                      \o << <<"</body>">>, <<"</html>">> >>
    IN  Join(html_parts)

\* the page of a project against a component collection
ProjectHtml(project, registry_components) ==
    ComposePage(project, CollectComponents(project.components, registry_components))


(***************************************************************************)
(* The state machine.  The operations are the module's functions, called   *)
(* one at a time and in any order; result holds the outcome of the last    *)
(* call (what it returned or raised, and for load what it printed).        *)
(* main() calls load_component_registry once before it starts the servers; *)
(* here it may be called again at any time (a reload), over whatever the   *)
(* cache file then holds.                                                  *)
(***************************************************************************)
Ok(op, via, value) ==
    [op |-> op, via |-> via, status |-> "ok", value |-> value]

Raised(op, via, error) ==
    [op |-> op, via |-> via, status |-> "error", error |-> error]

ValueError(msg) == [exc |-> "ValueError", msg |-> msg]
HTTPException(status_code, detail) ==
    [exc |-> "HTTPException", status_code |-> status_code, msg |-> detail]

\* the outcome of load_component_registry, with the lines it printed
LoadReturned(value, log) ==
    [op |-> "load", status |-> "ok", value |-> value, log |-> log]

LoadRaised(error, log) ==
    [op |-> "load", status |-> "error", error |-> error, log |-> log]

\* the two server threads of main(): the MCP event loop of the main thread
\* and the FastAPI thread; threads[t] is the frame of the call t is in
ThreadNames == {"mcp", "http"}

NotStarted == [pc |-> "not started"]
Idle == [pc |-> "idle"]
Crashed == [pc |-> "crashed"]

\* load_component_registry about to look at the cache file
LoadFrame(caller) == [op |-> "load", pc |-> "cache", caller |-> caller]

\* main() is at "await load_component_registry()", the servers not started
MainAtLoad == [t \in ThreadNames |-> IF t = "mcp" THEN LoadFrame("main") ELSE NotStarted]

Init ==
    /\ threads = MainAtLoad
    /\ component_registry = ComponentRegistry(<<>>, None)
    /\ active_projects = EmptyDict
    /\ cache_file \in CacheFiles
    /\ registry_url \in RegistryUrls
    /\ project_dirs = {}
    /\ now = 0
    /\ result = [op |-> "start"]

\* time passes
Tick ==
    /\ UNCHANGED threads
    /\ now < MaxClock
    /\ now' = now + 1
    /\ result' = [op |-> "environment"]
    /\ UNCHANGED <<component_registry, active_projects, cache_file, registry_url,
                   project_dirs>>

\* the operator removes the cache file
CacheFileRemoved ==
    /\ UNCHANGED threads
    /\ cache_file # NoFile
    /\ cache_file' = NoFile
    /\ result' = [op |-> "environment"]
    /\ UNCHANGED <<component_registry, active_projects, registry_url,
                   project_dirs, now>>

\* the operator puts another deployment's snapshot in place of the cache file
CacheFileReplaced ==
    /\ UNCHANGED threads
    /\ cache_file # ForeignSnapshot
    /\ cache_file' = ForeignSnapshot
    /\ result' = [op |-> "environment"]
    /\ UNCHANGED <<component_registry, active_projects, registry_url,
                   project_dirs, now>>

\* the cache file is damaged or made unreadable
CacheFileDamaged ==
    /\ UNCHANGED threads
    /\ cache_file.exists
    /\ cache_file # CorruptFile
    /\ cache_file' = CorruptFile
    /\ result' = [op |-> "environment"]
    /\ UNCHANGED <<component_registry, active_projects, registry_url,
                   project_dirs, now>>

\* load_sample_components, from load_component_registry's else branch;
\* written says how saving the snapshot ends
load_sample_components(log, written) ==
    LET loaded == [component_registry EXCEPT !.components = sample_components,
                                             !.last_updated = IntV(now)]
    IN  /\ component_registry' = loaded
        /\ CASE written = "saved" ->
                  /\ cache_file' = SnapshotFile(model_dump_json(loaded))
                  /\ result' = LoadReturned(loaded, Append(log, "Loaded sample components"))
             [] written = "open failed" ->
                  /\ cache_file' = cache_file
                  /\ result' = LoadRaised([exc |-> "OSError"], log)
             [] written = "write failed" ->
                  /\ cache_file' = CorruptFile
                  /\ result' = LoadRaised([exc |-> "OSError"], log)

load_component_registry ==
    /\ UNCHANGED threads
    /\ IF cache_file.exists /\ cache_file.valid
       THEN LET loaded == ParseRegistry(cache_file.data)
            IN  /\ component_registry' = loaded
                /\ result' = LoadReturned(loaded, <<"Loaded components from cache">>)
                /\ UNCHANGED cache_file
       ELSE LET log == IF cache_file.exists THEN <<"Failed to load cache">> ELSE <<>>
            IN  IF registry_url # ""
                THEN /\ result' = LoadReturned(component_registry,
                                                Append(log, "Would load from"))
                     /\ UNCHANGED <<component_registry, cache_file>>
                ELSE \E written \in {"saved", "open failed", "write failed"} :
                        load_sample_components(log, written)
    /\ UNCHANGED <<active_projects, registry_url, project_dirs, now>>


(***************************************************************************)
(* Registry queries: the MCP tools.                                        *)
(***************************************************************************)
SelectCategory(components, category) ==
    SelectSeq(components, LAMBDA c : c.category = category)

Summary(c) ==
    [id |-> c.id, name |-> c.name, category |-> c.category,
     description |-> c.description, tags |-> c.tags,
     props |-> [i \in 1..Len(c.props) |-> c.props[i][1]]]

\* category is left out (None) or a string; "if category" also skips ""
ListOutcome(category) ==
    LET components == IF category.given /\ category.v # ""
                      THEN SelectCategory(component_registry.components, category.v)
                      ELSE component_registry.components
    IN  Ok("list_components", "mcp",
           [i \in 1..Len(components) |-> Summary(components[i])])

list_components(category) ==
    /\ UNCHANGED threads
    /\ result' = ListOutcome(category)
    /\ UNCHANGED <<component_registry, active_projects, cache_file, registry_url,
                   project_dirs, now>>

\* "if not component: return None", else the component's fields as a dict
GetOutcome(component_id) ==
    Ok("get_component", "mcp",
       FindComponent(component_registry.components, component_id))

get_component(component_id) ==
    /\ UNCHANGED threads
    /\ result' = GetOutcome(component_id)
    /\ UNCHANGED <<component_registry, active_projects, cache_file, registry_url,
                   project_dirs, now>>

\* the characters of the names, descriptions and tags of the components
Text(s) ==
    CASE s = "Hero Section" ->
            <<"H", "e", "r", "o", " ", "S", "e", "c", "t", "i", "o", "n">>
      [] s = "Navigation Bar" ->
            <<"N", "a", "v", "i", "g", "a", "t", "i", "o", "n", " ", "B", "a", "r">>
      [] s = "Pair" ->
            <<"P", "a", "i", "r">>
      [] s = "A prominent hero section with title and call-to-action" ->
            <<"A", " ", "p", "r", "o", "m", "i", "n", "e", "n", "t", " ", "h", "e", "r", "o", " ", "s", "e", "c", "t", "i", "o", "n", " ", "w", "i", "t", "h", " ", "t", "i", "t", "l", "e", " ", "a", "n", "d", " ", "c", "a", "l", "l", "-", "t", "o", "-", "a", "c", "t", "i", "o", "n">>
      [] s = "Responsive navigation bar with logo and menu items" ->
            <<"R", "e", "s", "p", "o", "n", "s", "i", "v", "e", " ", "n", "a", "v", "i", "g", "a", "t", "i", "o", "n", " ", "b", "a", "r", " ", "w", "i", "t", "h", " ", "l", "o", "g", "o", " ", "a", "n", "d", " ", "m", "e", "n", "u", " ", "i", "t", "e", "m", "s">>
      [] s = "Restyled navigation bar" ->
            <<"R", "e", "s", "t", "y", "l", "e", "d", " ", "n", "a", "v", "i", "g", "a", "t", "i", "o", "n", " ", "b", "a", "r">>
      [] s = "Two values side by side" ->
            <<"T", "w", "o", " ", "v", "a", "l", "u", "e", "s", " ", "s", "i", "d", "e", " ", "b", "y", " ", "s", "i", "d", "e">>
      [] s = "hero" ->
            <<"h", "e", "r", "o">>
      [] s = "landing" ->
            <<"l", "a", "n", "d", "i", "n", "g">>
      [] s = "call-to-action" ->
            <<"c", "a", "l", "l", "-", "t", "o", "-", "a", "c", "t", "i", "o", "n">>
      [] s = "navigation" ->
            <<"n", "a", "v", "i", "g", "a", "t", "i", "o", "n">>
      [] s = "header" ->
            <<"h", "e", "a", "d", "e", "r">>
      [] s = "menu" ->
            <<"m", "e", "n", "u">>
      [] s = "responsive" ->
            <<"r", "e", "s", "p", "o", "n", "s", "i", "v", "e">>
      [] s = "pair" ->
            <<"p", "a", "i", "r">>
      [] s = "" -> <<>>

\* str.lower(), a character and a text
LowerChar(ch) ==
    CASE ch = "A" -> "a"
      [] ch = "B" -> "b"
      [] ch = "C" -> "c"
      [] ch = "D" -> "d"
      [] ch = "E" -> "e"
      [] ch = "F" -> "f"
      [] ch = "G" -> "g"
      [] ch = "H" -> "h"
      [] ch = "I" -> "i"
      [] ch = "J" -> "j"
      [] ch = "K" -> "k"
      [] ch = "L" -> "l"
      [] ch = "M" -> "m"
      [] ch = "N" -> "n"
      [] ch = "O" -> "o"
      [] ch = "P" -> "p"
      [] ch = "Q" -> "q"
      [] ch = "R" -> "r"
      [] ch = "S" -> "s"
      [] ch = "T" -> "t"
      [] ch = "U" -> "u"
      [] ch = "V" -> "v"
      [] ch = "W" -> "w"
      [] ch = "X" -> "x"
      [] ch = "Y" -> "y"
      [] ch = "Z" -> "z"
      [] OTHER -> ch

Lower(text) == [i \in 1..Len(text) |-> LowerChar(text[i])]

\* sub in text
Contains(text, sub) ==
    \E i \in 1..(Len(text) - Len(sub) + 1) : SubSeq(text, i, i + Len(sub) - 1) = sub

\* the condition of the search loop; every component here has a description
Matches(component, query_lower) ==
    \/ Contains(Lower(Text(component.name)), query_lower)
    \/ Contains(Lower(Text(component.description)), query_lower)
    \/ \E i \in 1..Len(component.tags) :
          Contains(Lower(Text(component.tags[i])), query_lower)

\* the dict search_components appends for a match
SearchSummary(c) ==
    [id |-> c.id, name |-> c.name, category |-> c.category,
     description |-> c.description, tags |-> c.tags]

SearchOutcome(query) ==
    LET query_lower == Lower(query)
        matching == SelectSeq(component_registry.components,
                              LAMBDA c : Matches(c, query_lower))
    IN  Ok("search_components", "mcp",
           [i \in 1..Len(matching) |-> SearchSummary(matching[i])])

search_components(query) ==
    /\ UNCHANGED threads
    /\ result' = SearchOutcome(query)
    /\ UNCHANGED <<component_registry, active_projects, cache_file, registry_url,
                   project_dirs, now>>

CategoryArgs == {Omitted, Given(""), Given("navigation"), Given("content")}

\* "", nav, NAV, xyz, head, two
SearchQueries ==
    {<<>>, <<"n", "a", "v">>, <<"N", "A", "V">>, <<"x", "y", "z">>,
     <<"h", "e", "a", "d">>, <<"t", "w", "o">>}

(***************************************************************************)
(* simple_server.py: the same three catalogue tools over a fixed list.     *)
(***************************************************************************)
COMPONENTS ==
    << [id |-> "hero-section-001", name |-> "Hero Section", category |-> "sections",
        description |-> "A prominent hero section with title and call-to-action",
        tags |-> <<"hero", "landing", "call-to-action">>,
        props |-> <<"title", "subtitle", "buttonText", "backgroundImage">>],
       [id |-> "navbar-001", name |-> "Navigation Bar", category |-> "navigation",
        description |-> "Responsive navigation bar with logo and menu items",
        tags |-> <<"navigation", "header", "menu", "responsive">>,
        props |-> <<"brandName", "logoUrl", "menuItems">>] >>

SimpleListOutcome(category) ==
    Ok("list_components", "simple",
       IF category.given /\ category.v # ""
       THEN SelectCategory(COMPONENTS, category.v)
       ELSE COMPONENTS)

\* "if not component: return {"error": ...}"
SimpleGetOutcome(component_id) ==
    LET component == FindComponent(COMPONENTS, component_id)
    IN  Ok("get_component", "simple",
           IF component = None
           THEN [error |-> <<"Component ", component_id, " not found">>]
           ELSE component)

SimpleSearchOutcome(query) ==
    Ok("search_components", "simple",
       SelectSeq(COMPONENTS, LAMBDA c : Matches(c, Lower(query))))

simple_list_components(category) ==
    /\ UNCHANGED threads
    /\ result' = SimpleListOutcome(category)
    /\ UNCHANGED <<component_registry, active_projects, cache_file, registry_url,
                   project_dirs, now>>

simple_get_component(component_id) ==
    /\ UNCHANGED threads
    /\ result' = SimpleGetOutcome(component_id)
    /\ UNCHANGED <<component_registry, active_projects, cache_file, registry_url,
                   project_dirs, now>>

simple_search_components(query) ==
    /\ UNCHANGED threads
    /\ result' = SimpleSearchOutcome(query)
    /\ UNCHANGED <<component_registry, active_projects, cache_file, registry_url,
                   project_dirs, now>>

(***************************************************************************)
(* Project store: the MCP tools.                                           *)
(***************************************************************************)
\* str(uuid.uuid4()): a token not among those handed out before; the token
\* of the n-th project is n, that of the n-th instance of project p is <<p, n>>
\* variant: the same id every time
uuid4_Same(used) == 1

uuid4(used) == Cardinality(used) + 1

NewProject(project_id, project_name) ==
    [id |-> project_id, name |-> project_name,
     path |-> <<"./project", project_name>>, components |-> <<>>,
     created_at |-> IsoFormat(IntV(now))]

\* variant: the store is made anew with the project as its only member
Store_Alone(projects, project_id, project) ==
    [k \in {project_id} |-> project]

Store(projects, project_id, project) ==
    [k \in DOMAIN projects \cup {project_id} |->
        IF k = project_id THEN project ELSE projects[k]]

\* the ids of the instances in the store
InstanceIds(projects, ids) ==
    UNION {{projects[k].components[i].id : i \in 1..Len(projects[k].components)} :
             k \in ids \cap DOMAIN projects}

\* the number of tokens handed out so far
UuidsUsed(projects) ==
    Cardinality(DOMAIN projects)
    + Cardinality(InstanceIds(projects, DOMAIN projects))

create_project(project_name) ==
    /\ UNCHANGED threads
    /\ UuidsUsed(active_projects) < MaxUuids
    /\ LET project_id == uuid4(DOMAIN active_projects)
       IN  /\ project_dirs' = project_dirs \cup {project_name}
           /\ active_projects' = Store(active_projects, project_id,
                                       NewProject(project_id, project_name))
           /\ result' = Ok("create_project", "mcp", project_id)
    /\ UNCHANGED <<component_registry, cache_file, registry_url, now>>

\* variant: the component is looked up before the project
AddOutcome_ComponentFirst(project_id, component_id, props, section_arg) ==
    LET section == OrDefault(section_arg, "main")
        component == FindComponent(component_registry.components, component_id)
        checked == ValidateProps(component.props, PropsOrEmpty(props), <<>>)
        component_instance ==
            ComponentInstance(<<project_id, uuid4(InstanceIds(active_projects, {project_id}))>>,
                              component_id, section, checked.props,
                              IsoFormat(IntV(now)))
    IN  IF component = None
        THEN [result |-> Raised("add_component_to_project", "mcp",
                                ValueError(<<"Component ", component_id, " not found">>)),
              active_projects |-> active_projects]
        ELSE IF project_id \notin DOMAIN active_projects
        THEN [result |-> Raised("add_component_to_project", "mcp",
                                ValueError(<<"Project ", project_id, " not found">>)),
              active_projects |-> active_projects]
        ELSE IF ~checked.ok
        THEN [result |-> Raised("add_component_to_project", "mcp",
                                ValueError(<<"Required prop '", checked.prop_name,
                                             "' not provided">>)),
              active_projects |-> active_projects]
        ELSE [result |-> Ok("add_component_to_project", "mcp", component_instance),
              active_projects |->
                  [active_projects EXCEPT ![project_id].components =
                      Append(@, component_instance)]]

\* what add_component_to_project returns or raises, and the store it leaves
AddOutcome(project_id, component_id, props, section_arg) ==
    LET section == OrDefault(section_arg, "main")
        component == FindComponent(component_registry.components, component_id)
        checked == ValidateProps(component.props, PropsOrEmpty(props), <<>>)
        component_instance ==
            ComponentInstance(<<project_id, uuid4(InstanceIds(active_projects, {project_id}))>>,
                              component_id, section, checked.props,
                              IsoFormat(IntV(now)))
    IN  IF project_id \notin DOMAIN active_projects
        THEN [result |-> Raised("add_component_to_project", "mcp",
                                ValueError(<<"Project ", project_id, " not found">>)),
              active_projects |-> active_projects]
        ELSE IF component = None
        THEN [result |-> Raised("add_component_to_project", "mcp",
                                ValueError(<<"Component ", component_id, " not found">>)),
              active_projects |-> active_projects]
        ELSE IF ~checked.ok
        THEN [result |-> Raised("add_component_to_project", "mcp",
                                ValueError(<<"Required prop '", checked.prop_name,
                                             "' not provided">>)),
              active_projects |-> active_projects]
        ELSE [result |-> Ok("add_component_to_project", "mcp", component_instance),
              active_projects |->
                  [active_projects EXCEPT ![project_id].components =
                      Append(@, component_instance)]]

add_component_to_project(project_id, component_id, props, section_arg) ==
    /\ UNCHANGED threads
    /\ LET outcome == AddOutcome(project_id, component_id, props, section_arg)
       IN  /\ outcome.result.status = "ok" => UuidsUsed(active_projects) < MaxUuids
           /\ active_projects' = outcome.active_projects
           /\ result' = outcome.result
    /\ UNCHANGED <<component_registry, cache_file, registry_url, project_dirs, now>>

\* what generate_project_html returns or raises
RenderOutcome(project_id) ==
    IF project_id \notin DOMAIN active_projects
    THEN Raised("generate_project_html", "mcp",
                ValueError(<<"Project ", project_id, " not found">>))
    ELSE Ok("generate_project_html", "mcp",
            ProjectHtml(active_projects[project_id], component_registry.components))

generate_project_html(project_id) ==
    /\ UNCHANGED threads
    /\ result' = RenderOutcome(project_id)
    /\ UNCHANGED <<component_registry, active_projects, cache_file, registry_url,
                   project_dirs, now>>

(***************************************************************************)
(* Project store: the HTTP routes of the web editor.                       *)
(***************************************************************************)
\* f"Project_{int(asyncio.get_event_loop().time())}"
DefaultProjectName == "Project_" \o ToString(now)

\* variant: the default whatever the body holds
DataGet_Default(data, key, default) == default

\* data.get(key, default)
DataGet(data, key, default) == IF key \in DOMAIN data THEN data[key] ELSE default

http_create_project(data) ==
    /\ UNCHANGED threads
    /\ UuidsUsed(active_projects) < MaxUuids
    /\ LET project_name == DataGet(data, "project_name", DefaultProjectName)
           project_id == uuid4(DOMAIN active_projects)
       IN  /\ project_dirs' = project_dirs \cup {project_name}
           /\ active_projects' = Store(active_projects, project_id,
                                       NewProject(project_id, project_name))
           /\ result' = Ok("create_project", "http", project_id)
    /\ UNCHANGED <<component_registry, cache_file, registry_url, now>>

HttpAddOutcome(data) ==
    LET project_id == data["project_id"]
        component_id == data["component_id"]
        props == DataGet(data, "props", None)
        section == DataGet(data, "section", "main")
        component == FindComponent(component_registry.components, component_id)
        checked == ValidateProps(component.props, PropsOrEmpty(props), <<>>)
        component_instance ==
            ComponentInstance(<<project_id, uuid4(InstanceIds(active_projects, {project_id}))>>,
                              component_id, section, checked.props,
                              IsoFormat(IntV(now)))
    IN  IF project_id \notin DOMAIN active_projects
        THEN [result |-> Raised("add_component_to_project", "http",
                                HTTPException(404, <<"Project ", project_id, " not found">>)),
              active_projects |-> active_projects]
        ELSE IF component = None
        THEN [result |-> Raised("add_component_to_project", "http",
                                HTTPException(404, <<"Component ", component_id,
                                                     " not found">>)),
              active_projects |-> active_projects]
        ELSE IF ~checked.ok
        THEN [result |-> Raised("add_component_to_project", "http",
                                HTTPException(400, <<"Required prop '", checked.prop_name,
                                                     "' not provided">>)),
              active_projects |-> active_projects]
        ELSE [result |-> Ok("add_component_to_project", "http", component_instance),
              active_projects |->
                  [active_projects EXCEPT ![project_id].components =
                      Append(@, component_instance)]]

http_add_component_to_project(data) ==
    /\ UNCHANGED threads
    /\ LET outcome == HttpAddOutcome(data)
       IN  /\ outcome.result.status = "ok" => UuidsUsed(active_projects) < MaxUuids
           /\ active_projects' = outcome.active_projects
           /\ result' = outcome.result
    /\ UNCHANGED <<component_registry, cache_file, registry_url, project_dirs, now>>

HttpRenderOutcome(data) ==
    LET project_id == data["project_id"]
    IN  IF project_id \notin DOMAIN active_projects
        THEN Raised("generate_project_html", "http",
                    HTTPException(404, <<"Project ", project_id, " not found">>))
        ELSE Ok("generate_project_html", "http",
                [html |-> ProjectHtml(active_projects[project_id],
                                      component_registry.components)])

http_generate_project_html(data) ==
    /\ UNCHANGED threads
    /\ result' = HttpRenderOutcome(data)
    /\ UNCHANGED <<component_registry, active_projects, cache_file, registry_url,
                   project_dirs, now>>

\* request bodies
CreateBodies == {EmptyDict} \cup {MkDict(<<"project_name", n>>) : n \in ProjectNames}

AddBodies ==
    {[k \in {"project_id", "component_id"} \cup o |->
         CASE k = "project_id" -> p
           [] k = "component_id" -> c
           [] k = "props" -> pr
           [] k = "section" -> "footer"] :
       p \in ProjectIdArgs, c \in ComponentIdArgs, pr \in CallerProps,
       o \in {{"props"}, {"props", "section"}}}

RenderBodies == {MkDict(<<"project_id", p>>) : p \in ProjectIdArgs}

Next ==
    \/ CacheFileRemoved
    \/ CacheFileReplaced
    \/ load_component_registry
    \/ \E project_name \in ProjectNames : create_project(project_name)
    \/ \E project_id \in ProjectIdArgs, component_id \in ComponentIdArgs,
          props \in CallerProps, section \in SectionArgs :
            add_component_to_project(project_id, component_id, props, section)
    \/ \E project_id \in ProjectIdArgs : generate_project_html(project_id)
    \/ \E data \in CreateBodies : http_create_project(data)
    \/ \E data \in AddBodies : http_add_component_to_project(data)
    \/ \E data \in RenderBodies : http_generate_project_html(data)

Spec == Init /\ [][Next]_vars

\* the MCP tools of the project store alone
NextTools ==
    \/ CacheFileRemoved
    \/ CacheFileReplaced
    \/ load_component_registry
    \/ \E project_name \in ProjectNames : create_project(project_name)
    \/ \E project_id \in ProjectIdArgs, component_id \in ComponentIdArgs,
          props \in CallerProps, section \in SectionArgs :
            add_component_to_project(project_id, component_id, props, section)
    \/ \E project_id \in ProjectIdArgs : generate_project_html(project_id)

SpecTools == Init /\ [][NextTools]_vars

\* every tool and route of server.py
NextAll ==
    \/ Next
    \/ \E category \in CategoryArgs : list_components(category)
    \/ \E component_id \in ComponentIdArgs : get_component(component_id)
    \/ \E query \in SearchQueries : search_components(query)

SpecAll == Init /\ [][NextAll]_vars

\* the registry's life alone
NextLoad ==
    \/ Tick
    \/ CacheFileRemoved
    \/ CacheFileReplaced
    \/ CacheFileDamaged
    \/ load_component_registry
    \/ \E category \in CategoryArgs : list_components(category)
    \/ \E component_id \in ComponentIdArgs : get_component(component_id)
    \/ \E query \in SearchQueries : search_components(query)
    \/ \E category \in CategoryArgs : simple_list_components(category)
    \/ \E component_id \in ComponentIdArgs : simple_get_component(component_id)
    \/ \E query \in SearchQueries : simple_search_components(query)

SpecLoad == Init /\ [][NextLoad]_vars

(***************************************************************************)
(* The calls as the two threads run them: one step per access to the       *)
(* shared objects (the active_projects dict, a project's components list,  *)
(* the component_registry global and its attributes, the cache file).  A   *)
(* thread runs one call at a time; the steps of the two threads interleave *)
(* freely.  A frame holds the call's arguments and locals; a render frame  *)
(* also remembers every value its project's list and the registry's        *)
(* collection had while the call ran (lists, registries).                  *)
(***************************************************************************)
ConcProps == CallerProps \ {None}

CanCall(t) == threads[t].pc \in {"idle", "returned"}

Returned(frame, outcome) ==
    [pc |-> "returned", op |-> frame.op, call |-> frame, outcome |-> outcome]

\* how the tool and the route report a missing object and a bad request
NotFound(t, msg) == IF t = "http" THEN HTTPException(404, msg) ELSE ValueError(msg)
BadRequest(t, msg) == IF t = "http" THEN HTTPException(400, msg) ELSE ValueError(msg)

\* the instance ids made by calls that have not appended yet
InFlightIds ==
    {threads[t].instance.id : t \in {u \in ThreadNames : threads[u].pc = "append"}}

\* a render in flight on a project sees the project's list change
ListSeen(frame, project_id, list) ==
    IF frame.pc = "scan" /\ frame.project_id = project_id
    THEN [frame EXCEPT !.lists = @ \cup {list}]
    ELSE frame

\* a render in flight sees the registry's collection change
RegistrySeen(frame, components) ==
    IF frame.pc = "scan"
    THEN [frame EXCEPT !.registries = @ \cup {components}]
    ELSE frame

\* "if project_id not in active_projects"
add_check_project(t, project_id, component_id, props) ==
    /\ CanCall(t)
    /\ LET frame == [op |-> "add", pc |-> "component", project_id |-> project_id,
                     component_id |-> component_id, props |-> props, section |-> "main"]
       IN  threads' = [threads EXCEPT ![t] =
              IF project_id \notin DOMAIN active_projects
              THEN Returned(frame, Raised("add_component_to_project", t,
                        NotFound(t, <<"Project ", project_id, " not found">>)))
              ELSE frame]
    /\ UNCHANGED <<component_registry, active_projects, cache_file, registry_url,
                   project_dirs, now, result>>

\* the component lookup, the validation loop and the instance dict
add_find_component(t) ==
    /\ threads[t].pc = "component"
    /\ LET frame == threads[t]
           component == FindComponent(component_registry.components, frame.component_id)
           checked == ValidateProps(component.props, PropsOrEmpty(frame.props), <<>>)
           used == InstanceIds(active_projects, {frame.project_id})
                   \cup {id \in InFlightIds : id[1] = frame.project_id}
           component_instance ==
               ComponentInstance(<<frame.project_id, uuid4(used)>>, frame.component_id,
                                 frame.section, checked.props, IsoFormat(IntV(now)))
       IN  IF component = None
           THEN threads' = [threads EXCEPT ![t] =
                   Returned(frame, Raised("add_component_to_project", t,
                       NotFound(t, <<"Component ", frame.component_id, " not found">>)))]
           ELSE IF ~checked.ok
           THEN threads' = [threads EXCEPT ![t] =
                   Returned(frame, Raised("add_component_to_project", t,
                       BadRequest(t, <<"Required prop '", checked.prop_name,
                                       "' not provided">>)))]
           ELSE /\ UuidsUsed(active_projects) + Cardinality(InFlightIds) < MaxUuids
                /\ threads' = [threads EXCEPT ![t] =
                      [op |-> "add", pc |-> "append", project_id |-> frame.project_id,
                       component_id |-> frame.component_id, props |-> frame.props,
                       section |-> frame.section, instance |-> component_instance]]
    /\ UNCHANGED <<component_registry, active_projects, cache_file, registry_url,
                   project_dirs, now, result>>

\* variant: the list is stored anew with the instance as its only member
AppendInstance_Overwrite(projects, project_id, component_instance) ==
    [projects EXCEPT ![project_id].components = <<component_instance>>]

\* variant: the instance is put at the front of the list
AppendInstance_Prepend(projects, project_id, component_instance) ==
    [projects EXCEPT ![project_id].components = <<component_instance>> \o @]

\* active_projects[project_id]["components"].append(component_instance)
AppendInstance(projects, project_id, component_instance) ==
    [projects EXCEPT ![project_id].components = Append(@, component_instance)]

add_append(t) ==
    /\ threads[t].pc = "append"
    /\ LET frame == threads[t]
           projects == AppendInstance(active_projects, frame.project_id, frame.instance)
       IN  /\ active_projects' = projects
           /\ threads' = [u \in ThreadNames |->
                 IF u = t
                 THEN Returned(frame, Ok("add_component_to_project", t, frame.instance))
                 ELSE ListSeen(threads[u], frame.project_id,
                               projects[frame.project_id].components)]
    /\ UNCHANGED <<component_registry, cache_file, registry_url, project_dirs, now, result>>

\* create_project: the one store into active_projects
create_project_call(t, project_name) ==
    /\ CanCall(t)
    /\ UuidsUsed(active_projects) + Cardinality(InFlightIds) < MaxUuids
    /\ LET project_id == uuid4(DOMAIN active_projects)
           frame == [op |-> "create", pc |-> "store", project_name |-> project_name]
       IN  /\ project_dirs' = project_dirs \cup {project_name}
           /\ active_projects' = Store(active_projects, project_id,
                                       NewProject(project_id, project_name))
           /\ threads' = [threads EXCEPT ![t] =
                 Returned(frame, Ok("create_project", t, project_id))]
    /\ UNCHANGED <<component_registry, cache_file, registry_url, now, result>>

\* "if project_id not in active_projects", project = ..., components = []
render_check_project(t, project_id) ==
    /\ CanCall(t)
    /\ LET frame == [op |-> "render", pc |-> "scan", project_id |-> project_id,
                     scanned |-> 0, components |-> <<>>,
                     lists |-> IF project_id \in DOMAIN active_projects
                               THEN {active_projects[project_id].components} ELSE {},
                     registries |-> {component_registry.components}]
       IN  threads' = [threads EXCEPT ![t] =
              IF project_id \notin DOMAIN active_projects
              THEN Returned(frame, Raised("generate_project_html", t,
                        NotFound(t, <<"Project ", project_id, " not found">>)))
              ELSE frame]
    /\ UNCHANGED <<component_registry, active_projects, cache_file, registry_url,
                   project_dirs, now, result>>

\* one turn of "for comp_instance in project['components']", which looks the
\* component up in the registry as it is now; the list iterator ends when
\* its index has reached the length the list has now, and the rest of the
\* call works on the collected components
render_scan(t) ==
    /\ threads[t].pc = "scan"
    /\ LET frame == threads[t]
           project == active_projects[frame.project_id]
           html == ComposePage(project, frame.components)
       IN  threads' = [threads EXCEPT ![t] =
              IF frame.scanned < Len(project.components)
              THEN [frame EXCEPT
                      !.scanned = @ + 1,
                      !.components = @ \o
                          CollectComponents(<<project.components[frame.scanned + 1]>>,
                                            component_registry.components)]
              ELSE Returned(frame, Ok("generate_project_html", t,
                                      IF t = "http" THEN [html |-> html] ELSE html))]
    /\ UNCHANGED <<component_registry, active_projects, cache_file, registry_url,
                   project_dirs, now, result>>

\* the threads with the registry's new collection noted by renders in flight
WithRegistry(components) ==
    [u \in ThreadNames |-> RegistrySeen(threads[u], components)]

\* load_component_registry is over: main() goes on to start the servers, or
\* dies of the exception; a later call just returns or raises
LoadDone(frames, t, frame, outcome) ==
    IF frame.caller = "main"
    THEN IF outcome.status = "ok"
         THEN [u \in ThreadNames |-> IF u = t THEN Returned(frame, outcome) ELSE Idle]
         ELSE [frames EXCEPT ![t] = Crashed]
    ELSE [frames EXCEPT ![t] = Returned(frame, outcome)]

\* load_component_registry called again while the servers run
load_begin(t) ==
    /\ t = "mcp"
    /\ CanCall(t)
    /\ threads' = [threads EXCEPT ![t] = LoadFrame("reload")]
    /\ UNCHANGED <<component_registry, active_projects, cache_file, registry_url,
                   project_dirs, now, result>>

\* the cache step (rebinding the global) and the external-source branch
load_read_cache(t) ==
    /\ threads[t].pc = "cache"
    /\ LET frame == threads[t]
           log == IF cache_file.exists THEN <<"Failed to load cache">> ELSE <<>>
       IN  IF cache_file.exists /\ cache_file.valid
           THEN LET loaded == ParseRegistry(cache_file.data)
                IN  /\ component_registry' = loaded
                    /\ threads' = LoadDone(WithRegistry(loaded.components), t, frame,
                           LoadReturned(loaded, <<"Loaded components from cache">>))
           ELSE IF registry_url # ""
           THEN /\ threads' = LoadDone(threads, t, frame,
                        LoadReturned(component_registry, Append(log, "Would load from")))
                /\ UNCHANGED component_registry
           ELSE /\ threads' = [threads EXCEPT ![t] =
                       [op |-> "load", pc |-> "components", caller |-> frame.caller,
                        log |-> log]]
                /\ UNCHANGED component_registry
    /\ UNCHANGED <<active_projects, cache_file, registry_url, project_dirs, now, result>>

\* component_registry.components = sample_components
load_set_components(t) ==
    /\ threads[t].pc = "components"
    /\ component_registry' = [component_registry EXCEPT !.components = sample_components]
    /\ threads' = [WithRegistry(sample_components) EXCEPT ![t] =
                      [threads[t] EXCEPT !.pc = "last_updated"]]
    /\ UNCHANGED <<active_projects, cache_file, registry_url, project_dirs, now, result>>

\* component_registry.last_updated = datetime.now()
load_set_last_updated(t) ==
    /\ threads[t].pc = "last_updated"
    /\ component_registry' = [component_registry EXCEPT !.last_updated = IntV(now)]
    /\ threads' = [threads EXCEPT ![t] = [threads[t] EXCEPT !.pc = "save"]]
    /\ UNCHANGED <<active_projects, cache_file, registry_url, project_dirs, now, result>>

\* mkdir, open and write of the snapshot, and the last print
load_save(t) ==
    /\ threads[t].pc = "save"
    /\ LET frame == threads[t]
       IN  \E written \in {"saved", "open failed", "write failed"} :
             CASE written = "saved" ->
                    /\ cache_file' = SnapshotFile(model_dump_json(component_registry))
                    /\ threads' = LoadDone(threads, t, frame,
                           LoadReturned(component_registry,
                                        Append(frame.log, "Loaded sample components")))
               [] written = "open failed" ->
                    /\ cache_file' = cache_file
                    /\ threads' = LoadDone(threads, t, frame,
                                           LoadRaised([exc |-> "OSError"], frame.log))
               [] written = "write failed" ->
                    /\ cache_file' = CorruptFile
                    /\ threads' = LoadDone(threads, t, frame,
                                           LoadRaised([exc |-> "OSError"], frame.log))
    /\ UNCHANGED <<component_registry, active_projects, registry_url, project_dirs,
                   now, result>>

\* main()'s load, then the tools and routes on the two threads
NextThreads ==
    \E t \in ThreadNames :
        \/ load_read_cache(t)
        \/ load_set_components(t)
        \/ load_set_last_updated(t)
        \/ load_save(t)
        \/ \E project_name \in ProjectNames : create_project_call(t, project_name)
        \/ \E project_id \in DOMAIN active_projects, component_id \in ComponentIdArgs,
              props \in ConcProps :
                add_check_project(t, project_id, component_id, props)
        \/ add_find_component(t)
        \/ add_append(t)
        \/ \E project_id \in DOMAIN active_projects : render_check_project(t, project_id)
        \/ render_scan(t)

SpecThreads == Init /\ [][NextThreads]_vars

\* the same with the cache file changing and the registry reloaded while
\* the servers run
NextReload ==
    \/ NextThreads
    \/ \E t \in ThreadNames : load_begin(t)
    \/ CacheFileRemoved
    \/ CacheFileReplaced

SpecReload == Init /\ [][NextReload]_vars

(***************************************************************************)
(* What the claims read off the calls.  An attempt is one addInstance call *)
(* the current state admits, by the MCP tool or by the HTTP route, with    *)
(* its arguments as the callee sees them and its outcome.                  *)
(***************************************************************************)
AddAttempts ==
    {[project_id |-> p, component_id |-> c, props |-> pr,
      section |-> IF s = Omitted THEN "main" ELSE s.v,
      outcome |-> AddOutcome(p, c, pr, s)] :
        p \in ProjectIdArgs, c \in ComponentIdArgs, pr \in CallerProps, s \in SectionArgs}
    \cup
    {[project_id |-> data["project_id"], component_id |-> data["component_id"],
      props |-> DataGet(data, "props", None),
      section |-> DataGet(data, "section", "main"),
      outcome |-> HttpAddOutcome(data)] : data \in AddBodies}

IsAdd(r) == r.op = "add_component_to_project"
IsRender(r) == r.op = "generate_project_html"
Failed(r) == r.op # "start" /\ r.op # "environment" /\ r.status = "error"
Succeeded(r) == r.op # "start" /\ r.op # "environment" /\ r.status = "ok"

\* the error kinds of the interface, read from what the call raised
ErrorKind(r) ==
    LET msg == r.error.msg
    IN  CASE Head(msg) = "Project " -> "ProjectNotFound"
          [] Head(msg) = "Component " -> "ComponentNotFound"
          [] Head(msg) = "Required prop '" -> "MissingRequiredProp"
          [] OTHER -> "other"

\* the project, component or prop the error names
ErrorSubject(r) == r.error.msg[2]

\* the names the caller gave values for
GivenNames(props) == IF props.t = "dict" THEN DOMAIN props.d ELSE {}

\* the required props of the component the caller gave no value for
MissingRequired(component, props) ==
    {component.props[i][1] : i \in {j \in 1..Len(component.props) :
        /\ component.props[j][2].required
        /\ component.props[j][1] \notin GivenNames(props)}}

Registered(component_id) ==
    FindComponent(component_registry.components, component_id)

\* C1: addInstance on an existing project and an existing component, with a
\* required prop missing from the caller's props, fails with
\* MissingRequiredProp naming a required prop that was not supplied, whether
\* or not that prop has a default; the store is left as it was (no default
\* substituted, no instance appended).
C1_RequiredPropMissing ==
    \A a \in AddAttempts :
        (/\ a.project_id \in DOMAIN active_projects
         /\ Registered(a.component_id) # None
         /\ MissingRequired(Registered(a.component_id), a.props) # {})
        => /\ Failed(a.outcome.result)
           /\ ErrorKind(a.outcome.result) = "MissingRequiredProp"
           /\ ErrorSubject(a.outcome.result)
                \in MissingRequired(Registered(a.component_id), a.props)
           /\ a.outcome.active_projects = active_projects

\* an add has just failed for want of "b", a required prop that has a default
C1_Witness ==
    /\ IsAdd(result) /\ Failed(result)
    /\ ErrorKind(result) = "MissingRequiredProp"
    /\ ErrorSubject(result) = "b"
    /\ \E pid \in DOMAIN active_projects : active_projects[pid].components = <<>>

\* C2: a successful addInstance returns and stores an instance whose props
\* map every non-required prop of the component to the caller's value when
\* the caller gave one and to the PropSpec default when not.
C2_OptionalPropResolved ==
    \A a \in AddAttempts :
        Succeeded(a.outcome.result) =>
            LET component == Registered(a.component_id)
                instance == a.outcome.result.value
                stored == a.outcome.active_projects[a.project_id].components
            IN  /\ stored # <<>> /\ stored[Len(stored)] = instance
                /\ \A i \in 1..Len(component.props) :
                      LET P == component.props[i][1]
                          prop_spec == component.props[i][2]
                      IN  ~prop_spec.required =>
                            /\ P \in Keys(instance.props)
                            /\ Get(instance.props, P) =
                                  IF P \in GivenNames(a.props)
                                  THEN a.props.d[P]
                                  ELSE prop_spec.default

\* a stored navbar instance carries the caller's logoUrl and the default
\* menuItems
C2_Witness ==
    /\ IsAdd(result) /\ Succeeded(result)
    /\ result.value.component_id = "navbar-001"
    /\ Get(result.value.props, "logoUrl") = StrV(<<"logo.png">>)
    /\ Get(result.value.props, "menuItems") = sample_components[2].props[3][2].default
    /\ \E pid \in DOMAIN active_projects :
          /\ active_projects[pid].components # <<>>
          /\ active_projects[pid].components[Len(active_projects[pid].components)]
                = result.value

\* C7: addInstance fails with ProjectNotFound when the project id is unknown
\* (whatever the component id), with ComponentNotFound when the project
\* exists and the component id is not registered; a failed addInstance of
\* any kind leaves the projects and their instance lists as they were.
C7_AddFailures ==
    \A a \in AddAttempts :
        /\ a.project_id \notin DOMAIN active_projects
              => /\ Failed(a.outcome.result)
                 /\ ErrorKind(a.outcome.result) = "ProjectNotFound"
                 /\ ErrorSubject(a.outcome.result) = a.project_id
        /\ (a.project_id \in DOMAIN active_projects /\ Registered(a.component_id) = None)
              => /\ Failed(a.outcome.result)
                 /\ ErrorKind(a.outcome.result) = "ComponentNotFound"
                 /\ ErrorSubject(a.outcome.result) = a.component_id
        /\ Failed(a.outcome.result)
              => /\ a.outcome.active_projects = active_projects
                 /\ ErrorKind(a.outcome.result)
                       \in {"ProjectNotFound", "ComponentNotFound", "MissingRequiredProp"}

\* an add has just failed with ComponentNotFound on a project that holds an
\* instance
C7_Witness ==
    /\ IsAdd(result) /\ Failed(result)
    /\ ErrorKind(result) = "ComponentNotFound"
    /\ \E pid \in DOMAIN active_projects : active_projects[pid].components # <<>>

\* the store after a successful addInstance, from the store before it
C8_Store ==
    \A a \in AddAttempts :
        Succeeded(a.outcome.result) =>
            LET instance == a.outcome.result.value
                after == a.outcome.active_projects
            IN  /\ instance.component_id = a.component_id
                /\ instance.section = a.section
                /\ DOMAIN after = DOMAIN active_projects
                /\ after[a.project_id].components
                      = Append(active_projects[a.project_id].components, instance)
                /\ \A other \in DOMAIN active_projects \ {a.project_id} :
                      after[other] = active_projects[other]
                /\ \A i \in 1..Len(active_projects[a.project_id].components) :
                      active_projects[a.project_id].components[i].id # instance.id

\* what a step that is an addInstance leaves alone
C8_Frame ==
    IsAdd(result') =>
        /\ component_registry' = component_registry
        /\ DOMAIN active_projects' = DOMAIN active_projects
        /\ Succeeded(result') =>
              \E pid \in DOMAIN active_projects :
                  /\ active_projects'[pid].components
                        = Append(active_projects[pid].components, result'.value)
                  /\ \A other \in DOMAIN active_projects \ {pid} :
                        active_projects'[other] = active_projects[other]

\* C8: a successful addInstance(p, c, props, section) appends exactly one new
\* instance, with componentId c and the given section ("main" when none is
\* given), at the end of p's instance list, and leaves every other project,
\* the set of projects and the registry unchanged.
C8_AddAppendsOne == []C8_Store /\ [][C8_Frame]_vars

\* an add without a section has just appended to one of two projects
C8_Witness ==
    /\ IsAdd(result) /\ Succeeded(result)
    /\ result.value.section = "main"
    /\ Cardinality(DOMAIN active_projects) = 2

(***************************************************************************)
(* Reading a rendered document.  A render attempt is one render call the   *)
(* current state admits, by the MCP tool or by the HTTP route.             *)
(***************************************************************************)
RenderAttempts ==
    {[project_id |-> p, result |-> RenderOutcome(p)] : p \in ProjectIdArgs}
    \cup
    {[project_id |-> data["project_id"], result |-> HttpRenderOutcome(data)] :
        data \in RenderBodies}

\* the document a successful render handed back
Document(r) == IF r.via = "http" THEN r.value.html ELSE r.value

\* the lines of text from position i on, line being the part of the first
\* of them that lies before i
RECURSIVE LinesFrom(_, _, _)
LinesFrom(text, i, line) ==
    IF i > Len(text) THEN <<line>>
    ELSE IF text[i] = "\n" THEN <<line>> \o LinesFrom(text, i + 1, <<>>)
    ELSE LinesFrom(text, i + 1, Append(line, text[i]))

SplitLines(text) == LinesFrom(text, 1, <<>>)

StartsWith(line, symbol) == line # <<>> /\ Head(line) = symbol

IsMarkupLine(line) == StartsWith(line, "        ")
IsSectionOpen(line) == StartsWith(line, "    <section class=\"section\" id=\"")
IsStyleBlock(line) == StartsWith(line, "    <style>") /\ Len(line) > 1
IsScriptBlock(line) == StartsWith(line, "    <script>")

\* the text between the opening and the closing tag of a one-line block
Inner(line) == SubSeq(line, 2, Len(line) - 1)

Map(f(_), seq) == [i \in 1..Len(seq) |-> f(seq[i])]

MarkupLines(doc) == Map(Tail, SelectSeq(SplitLines(doc), IsMarkupLine))
StyleBlocks(doc) == Map(Inner, SelectSeq(SplitLines(doc), IsStyleBlock))
ScriptBlocks(doc) == Map(Inner, SelectSeq(SplitLines(doc), IsScriptBlock))

\* the section blocks of a document in document order: <<name, markup lines>>
RECURSIVE Blocks(_, _)
Blocks(lines, blocks) ==
    IF lines = <<>> THEN blocks
    ELSE IF IsSectionOpen(Head(lines))
    THEN Blocks(Tail(lines), Append(blocks, <<Head(lines)[2], <<>>>>))
    ELSE IF IsMarkupLine(Head(lines)) /\ blocks # <<>>
    THEN Blocks(Tail(lines),
                [blocks EXCEPT ![Len(blocks)] =
                    <<@[1], Append(@[2], Tail(Head(lines)))>>])
    ELSE Blocks(Tail(lines), blocks)

SectionBlocks(doc) == Blocks(SplitLines(doc), <<>>)

\* the distinct members of a sequence, each at its first position
RECURSIVE FirstSeen(_, _)
FirstSeen(seq, seen) ==
    IF seq = <<>> THEN <<>>
    ELSE IF Head(seq) \in seen THEN FirstSeen(Tail(seq), seen)
    ELSE <<Head(seq)>> \o FirstSeen(Tail(seq), seen \cup {Head(seq)})

IsRegistered(instance) == Registered(instance.component_id) # None

\* the instances of a project whose component is in the registry
Renderable(project_id) ==
    SelectSeq(active_projects[project_id].components, IsRegistered)

SectionOf(instance) == instance.section

\* the markup the composer makes of an instance
MarkupOf(instance) ==
    ApplyProps(Registered(instance.component_id).html, instance.props)

\* the markup with each placeholder of a prop of the instance replaced, in
\* one pass over the markup, by the string form of the prop's value
RECURSIVE Substitute(_, _)
Substitute(markup, props) ==
    IF markup = <<>> THEN <<>>
    ELSE IF /\ Len(markup) >= 5
            /\ SubSeq(markup, 1, 5) = Placeholder(markup[3])
            /\ markup[3] \in Keys(props)
    THEN py_str(Get(props, markup[3])) \o Substitute(SubSeq(markup, 6, Len(markup)), props)
    ELSE <<Head(markup)>> \o Substitute(Tail(markup), props)

Expected(instance) ==
    Substitute(Registered(instance.component_id).html, instance.props)

Range(seq) == {seq[i] : i \in 1..Len(seq)}

\* C3: render turns the markup of every instance it renders into the
\* component's markup with each {{p}}, p a prop name of the instance,
\* replaced by the string form of the instance's value for p, and everything
\* else, a placeholder no prop fills included, left as it stands.
C3_PlaceholdersReplaced ==
    \A r \in RenderAttempts :
        Succeeded(r.result) =>
            /\ Len(MarkupLines(Document(r.result))) = Len(Renderable(r.project_id))
            /\ \A i \in 1..Len(Renderable(r.project_id)) :
                  Expected(Renderable(r.project_id)[i])
                      \in Range(MarkupLines(Document(r.result)))

\* a render has just produced the restyled navbar with the caller's brand
\* name, the default menu and {{q}} as it stood
C3_Witness ==
    /\ IsRender(result) /\ Succeeded(result)
    /\ (<<"<nav>", "Acme", "<ul>">> \o py_str(sample_components[2].props[3][2].default)
        \o <<"</ul>">> \o Placeholder("q") \o <<"</nav>">>)
            \in Range(MarkupLines(Document(result)))

\* the section part of C4 over the instances render takes
C4Sections(doc, instances) ==
    LET blocks == SectionBlocks(doc)
        names == Map(Head, blocks)
    IN  /\ names = FirstSeen(Map(SectionOf, instances), {})
        /\ \A i, j \in 1..Len(names) : names[i] = names[j] => i = j

HasText(v) == v # None /\ v.s # <<>>
TextOf(v) == v.s
CssOf(instance) == Registered(instance.component_id).css
JsOf(instance) == Registered(instance.component_id).js

WithoutUnregistered(project_id) ==
    [active_projects[project_id] EXCEPT !.components = Renderable(project_id)]

C6_Outcome ==
    \A r \in RenderAttempts :
        /\ Failed(r.result) <=> r.project_id \notin DOMAIN active_projects
        /\ Failed(r.result) => /\ ErrorKind(r.result) = "ProjectNotFound"
                               /\ ErrorSubject(r.result) = r.project_id
        /\ Succeeded(r.result) =>
              LET doc == Document(r.result)
                  instances == Renderable(r.project_id)
              IN  /\ doc = ProjectHtml(WithoutUnregistered(r.project_id),
                                       component_registry.components)
                  /\ Len(MarkupLines(doc)) = Len(instances)
                  /\ Range(Map(Head, SectionBlocks(doc))) = Range(Map(SectionOf, instances))
                  /\ Range(StyleBlocks(doc)) \subseteq
                        Range(Map(TextOf, SelectSeq(Map(CssOf, instances), HasText)))
                  /\ Range(ScriptBlocks(doc)) \subseteq
                        Range(Map(TextOf, SelectSeq(Map(JsOf, instances), HasText)))

\* a render step leaves the store, unresolvable instances included, alone
C6_Frame ==
    IsRender(result') =>
        /\ active_projects' = active_projects
        /\ component_registry' = component_registry

\* C6: render(projectId) fails with ProjectNotFound exactly when projectId
\* is not a stored project; otherwise it succeeds, an instance whose
\* component is not in the registry contributing no markup, stylesheet,
\* script or section block, the document being the one the project would
\* have without such instances, and the instance staying in the project.
C6_RenderSkipsUnregistered == []C6_Outcome /\ [][C6_Frame]_vars

\* a render has just succeeded on a project that holds an instance whose
\* component is not in the registry after one that is
C6_Witness ==
    /\ IsRender(result) /\ Succeeded(result)
    /\ \E pid \in DOMAIN active_projects :
          /\ Document(result) = Document(RenderOutcome(pid))
          /\ Len(active_projects[pid].components) = 2
          /\ IsRegistered(active_projects[pid].components[1])
          /\ ~IsRegistered(active_projects[pid].components[2])
          /\ Len(MarkupLines(Document(result))) = 1

(***************************************************************************)
(* Reading a load: the source each printed line stands for.  The external  *)
(* step prints its line and loads nothing.                                 *)
(***************************************************************************)
IsLoad(r) == r.op = "load"

PopulatedFrom(log) ==
    {src \in {"cache", "external", "bootstrap"} :
        \/ src = "cache" /\ "Loaded components from cache" \in Range(log)
        \/ src = "bootstrap" /\ "Loaded sample components" \in Range(log)}

\* C9: load() takes the cache snapshot when it can be read, and otherwise
\* falls through, without an error, to the external source and then to the
\* bootstrap set; in every call that returns, exactly one of the three
\* sources has populated the registry.
C9_OneSourcePopulates ==
    (IsLoad(result) /\ Succeeded(result)) =>
        /\ Cardinality(PopulatedFrom(result.log)) = 1
        /\ (cache_file.exists /\ cache_file.valid)
              => component_registry = ParseRegistry(cache_file.data)
        /\ "bootstrap" \in PopulatedFrom(result.log)
              => component_registry.components = sample_components

\* a load has just fallen through a damaged cache file to the bootstrap set
C9_Witness ==
    /\ IsLoad(result) /\ Succeeded(result)
    /\ result.log = <<"Failed to load cache", "Loaded sample components">>
    /\ component_registry.components = sample_components

\* C10: whenever load() returns without an error, the bootstrap set being
\* non-empty, the registry holds at least one component.
C10_NonEmptyAfterLoad ==
    (IsLoad(result) /\ Succeeded(result) /\ sample_components # <<>>) =>
        Len(component_registry.components) >= 1

\* a load has just returned with components in the registry, the external
\* source not configured
C10_Witness ==
    /\ IsLoad(result) /\ Succeeded(result)
    /\ registry_url = ""
    /\ Len(component_registry.components) = 2

(***************************************************************************)
(* Reading the calls of the two threads.                                   *)
(***************************************************************************)
HasReturned(t, op) == threads[t].pc = "returned" /\ threads[t].op = op

\* a project with its instance list set to the given one
WithInstances(project_id, list) ==
    [active_projects[project_id] EXCEPT !.components = list]

\* the page of some list the project had during the call, against some
\* collection the registry held during the call
OfOneMoment(t, lists, registries) ==
    \E list \in lists, components \in registries :
        Document(threads[t].outcome)
            = ProjectHtml(WithInstances(threads[t].call.project_id, list), components)

\* C11: a reader running while the registry is loaded again sees the
\* collection as it was before the replacement or as it is after it: the
\* document of a render is the page of the project against one collection
\* the registry held during the call (list, get, search and addInstance
\* read the collection once).
C11_ReadersSeeOneRegistry ==
    \A t \in ThreadNames :
        (HasReturned(t, "render") /\ Succeeded(threads[t].outcome)) =>
            OfOneMoment(t, threads[t].call.lists, threads[t].call.registries)

\* a render has returned the page of one collection although the registry
\* was replaced while it ran
C11_Witness ==
    \E t \in ThreadNames :
        /\ HasReturned(t, "render") /\ Succeeded(threads[t].outcome)
        /\ Cardinality(threads[t].call.registries) = 2
        /\ threads[t].call.scanned = 2
        /\ OfOneMoment(t, threads[t].call.lists, threads[t].call.registries)

InstanceFields == {"id", "component_id", "section", "props", "added_at"}

\* the lists of the store: complete records, no id twice, and the instance
\* a successful add returned is in its project's list exactly once
C12_Lists ==
    /\ \A pid \in DOMAIN active_projects :
          LET list == active_projects[pid].components
          IN  /\ \A i \in 1..Len(list) :
                    /\ DOMAIN list[i] = InstanceFields
                    /\ Keys(list[i].props) # {}
              /\ \A i, j \in 1..Len(list) : list[i].id = list[j].id => i = j
    /\ \A t \in ThreadNames :
          (HasReturned(t, "add") /\ Succeeded(threads[t].outcome)) =>
              LET list == active_projects[threads[t].call.project_id].components
              IN  Cardinality({i \in 1..Len(list) : list[i] = threads[t].outcome.value}) = 1

\* a step changes a list only by the append of a call that returns the
\* appended instance, and every add that returns an instance has appended it
C12_Step ==
    /\ DOMAIN active_projects \subseteq DOMAIN active_projects'
    /\ \A pid \in DOMAIN active_projects :
          \/ active_projects'[pid].components = active_projects[pid].components
          \/ \E t \in ThreadNames :
                /\ threads[t].pc = "append" /\ threads[t].project_id = pid
                /\ threads'[t].pc = "returned"
                /\ threads'[t].outcome = Ok("add_component_to_project", t, threads[t].instance)
                /\ active_projects'[pid].components
                      = Append(active_projects[pid].components, threads[t].instance)
    /\ \A t \in ThreadNames :
          (threads[t].pc = "append" /\ threads'[t].pc = "returned") =>
              active_projects'[threads[t].project_id].components
                  = Append(active_projects[threads[t].project_id].components,
                           threads'[t].outcome.value)

\* C12: under every interleaving of addInstance calls of the two threads on
\* one project, each successful call appends exactly once: every list grows
\* by one complete instance per successful call, the one the call returns,
\* none lost and none twice.
C12_ConcurrentAdds == []C12_Lists /\ [][C12_Step]_vars

\* both threads have added to one project, the instance made second having
\* been appended first
C12_Witness ==
    /\ \A t \in ThreadNames : HasReturned(t, "add") /\ Succeeded(threads[t].outcome)
    /\ threads["mcp"].call.project_id = threads["http"].call.project_id
    /\ LET list == active_projects[threads["mcp"].call.project_id].components
       IN  /\ Len(list) = 2
           /\ list[1].id[2] = 2 /\ list[2].id[2] = 1
           /\ {list[1], list[2]} = {threads[t].outcome.value : t \in ThreadNames}

IsPrefixOf(s, t) == Len(s) <= Len(t) /\ SubSeq(t, 1, Len(s)) = s

\* C13: a render that runs while the other thread adds instances returns
\* the document of the project's list as it was at one single moment of the
\* call, every such list being a prefix of the list the project has later;
\* the lists of other projects have no part in it.
C13_RenderOfOneList ==
    \A t \in ThreadNames :
        (HasReturned(t, "render") /\ Succeeded(threads[t].outcome)) =>
            /\ OfOneMoment(t, threads[t].call.lists, {component_registry.components})
            /\ \A list \in threads[t].call.lists :
                  IsPrefixOf(list, active_projects[threads[t].call.project_id].components)

\* a render has returned during which the other thread appended to the
\* rendered project, after the render had scanned the first instance
C13_Witness ==
    \E t \in ThreadNames :
        /\ HasReturned(t, "render") /\ Succeeded(threads[t].outcome)
        /\ Cardinality(threads[t].call.lists) = 2
        /\ \E list \in threads[t].call.lists : Len(list) = 1
        /\ threads[t].call.scanned = 2
        /\ Len(threads[t].call.components) = 2

\* a project reduced to its name and its instance list
NameAndList(project) ==
    [id |-> 0, name |-> project.name, path |-> <<>>,
     components |-> project.components, created_at |-> None]

\* every render the state admits returns the page of the project's name and
\* list and of the registry's collection, whichever interface is called
C14_Function ==
    \A r \in RenderAttempts :
        Succeeded(r.result) =>
            Document(r.result) = ProjectHtml(NameAndList(active_projects[r.project_id]),
                                             component_registry.components)

Mutation(r) == r.op \in {"create_project", "add_component_to_project", "load"}

\* what the last render returned is what a render returns now, as long as
\* no createProject, addInstance or load has come after it
C14_Again ==
    IsRender(result) => result \in {r.result : r \in RenderAttempts}

\* a step that is no createProject, addInstance or load leaves the projects
\* and the registry's collection as they were
C14_Step ==
    ~Mutation(result') =>
        /\ active_projects' = active_projects
        /\ component_registry'.components = component_registry.components

\* C14: two renders of a project with no createProject, addInstance or load
\* between them return the same document, and the document is a function of
\* the project's name and instance list and of the registry's component
\* collection alone.
C14_RenderDeterministic == [](C14_Function /\ C14_Again) /\ [][C14_Step]_vars

\* a render has returned the page of a project that holds an instance, in a
\* state with another project of the same name
C14_Witness ==
    /\ IsRender(result) /\ Succeeded(result)
    /\ \E p, q \in DOMAIN active_projects :
          /\ p # q
          /\ active_projects[p].name = active_projects[q].name
          /\ Len(Renderable(q)) = 1
          /\ Document(result) = ProjectHtml(NameAndList(active_projects[q]),
                                            component_registry.components)

IsSectionLine(line) ==
    IsSectionOpen(line) \/ IsMarkupLine(line) \/ line = <<"    </section>">>

Where(lines, Is(_)) == {i \in 1..Len(lines) : Is(lines[i])}

\* the lines of a document: ten lines of head with the base reset styles,
\* the stylesheet blocks, the end of the head, the section blocks, the script
\* blocks, the end of the body
InBlockOrder(lines) ==
    LET s == Cardinality(Where(lines, IsStyleBlock))
        x == Cardinality(Where(lines, IsSectionLine))
        j == Cardinality(Where(lines, IsScriptBlock))
    IN  /\ Len(lines) = 14 + s + x + j
        /\ lines[1] = <<"<!DOCTYPE html>">>
        /\ lines[3] = <<"<head>">>
        /\ StartsWith(lines[6], "    <title>")
        /\ lines[7] = <<"    <style>">>
        /\ lines[8] = <<"        body { margin: 0; font-family: Arial, sans-serif; }">>
        /\ lines[9] = <<"        .section { min-height: 100vh; }">>
        /\ lines[10] = <<"    </style>">>
        /\ Where(lines, IsStyleBlock) = 11..(10 + s)
        /\ lines[11 + s] = <<"</head>">>
        /\ lines[12 + s] = <<"<body>">>
        /\ Where(lines, IsSectionLine) = (13 + s)..(12 + s + x)
        /\ Where(lines, IsScriptBlock) = (13 + s + x)..(12 + s + x + j)
        /\ lines[13 + s + x + j] = <<"</body>">>
        /\ lines[14 + s + x + j] = <<"</html>">>

\* C15: the document a render has returned is laid out in one fixed order: the
\* head with the base reset styles, then the stylesheet blocks, then the
\* section blocks, then the script blocks; no stylesheet block comes after a
\* section block and no script block before one.
C15_BlockOrder ==
    (IsRender(result) /\ Succeeded(result)) =>
        InBlockOrder(SplitLines(Document(result)))

\* a page with a stylesheet block, two section blocks and a script block
C15_Witness ==
    /\ IsRender(result) /\ Succeeded(result)
    /\ Len(StyleBlocks(Document(result))) >= 1
    /\ Len(SectionBlocks(Document(result))) = 2
    /\ Len(ScriptBlocks(Document(result))) >= 1
    /\ InBlockOrder(SplitLines(Document(result)))

\* the names the caller gave that the component does not declare
Undeclared(component, props) == GivenNames(props) \ Keys(component.props)

\* C16: addInstance whose caller props hold a name the component does not
\* declare does not fail because of that name, and the instance's props carry
\* the name with the caller's value.
C16_UndeclaredPassThrough ==
    \A a \in AddAttempts :
        (/\ a.project_id \in DOMAIN active_projects
         /\ Registered(a.component_id) # None
         /\ MissingRequired(Registered(a.component_id), a.props) = {}
         /\ Undeclared(Registered(a.component_id), a.props) # {})
        => /\ Succeeded(a.outcome.result)
           /\ \A name \in Undeclared(Registered(a.component_id), a.props) :
                 /\ name \in Keys(a.outcome.result.value.props)
                 /\ Get(a.outcome.result.value.props, name) = a.props.d[name]

\* an add given "zz", which pair-001 does not declare, has returned an
\* instance whose props do not hold "zz"
C16_Witness ==
    /\ IsAdd(result) /\ Succeeded(result)
    /\ result.value.component_id = "pair-001"
    /\ Keys(result.value.props) = {"a", "b", "note"}
    /\ Get(result.value.props, "b") = IntV(7)

\* the summary of a registered component
SummaryOf(c) ==
    [id |-> c.id, name |-> c.name, category |-> c.category,
     description |-> c.description, tags |-> c.tags,
     props |-> [i \in 1..Len(c.props) |-> c.props[i][1]]]

\* the summaries of the registered components of the two servers, in
\* registration order
Summaries == [i \in 1..Len(component_registry.components) |->
                 SummaryOf(component_registry.components[i])]
SimpleSummaries == COMPONENTS

\* every list call the state admits
ListAttempts ==
    {[category |-> c, registered |-> Summaries, result |-> ListOutcome(c)] :
        c \in CategoryArgs}
    \cup
    {[category |-> c, registered |-> SimpleSummaries, result |-> SimpleListOutcome(c)] :
        c \in CategoryArgs}

OfCategory(summaries, category) ==
    SelectSeq(summaries, LAMBDA x : x.category = category)

\* C17: list returns one summary per registered component in registration
\* order; with a category filter exactly the components whose category
\* equals the filter, in the same order, and without a filter all of them.
C17_ListInOrder ==
    \A a \in ListAttempts :
        /\ Succeeded(a.result)
        /\ a.result.value = IF a.category.given
                            THEN OfCategory(a.registered, a.category.v)
                            ELSE a.registered

\* the same for the filters that are not the empty string
C17_NonEmptyFilter ==
    \A a \in ListAttempts :
        (a.category.given => a.category.v # "") =>
            /\ Succeeded(a.result)
            /\ a.result.value = IF a.category.given
                                THEN OfCategory(a.registered, a.category.v)
                                ELSE a.registered

\* list has returned the one summary of the second of two registered
\* components
C17_Witness ==
    /\ result.op = "list_components" /\ result.via = "mcp"
    /\ Len(component_registry.components) = 2
    /\ result.value = <<SummaryOf(component_registry.components[2])>>

\* every search call the state admits, with the components searched
SearchAttempts ==
    {[query |-> q, components |-> component_registry.components,
      registered |-> Summaries, result |-> SearchOutcome(q)] : q \in SearchQueries}
    \cup
    {[query |-> q, components |-> COMPONENTS,
      registered |-> SimpleSummaries, result |-> SimpleSearchOutcome(q)] :
        q \in SearchQueries}

\* the lower-cased query is part of the lower-cased name, description or of
\* a lower-cased tag
Found(c, query) ==
    LET q == Lower(query)
        PartOf(s) == \E i \in 0..(Len(Text(s)) - Len(q)) :
                        \A k \in 1..Len(q) : LowerChar(Text(s)[i + k]) = q[k]
    IN  PartOf(c.name) \/ PartOf(c.description) \/ \E t \in Range(c.tags) : PartOf(t)

\* the positions of the components a query finds
FoundAt(a) == {i \in 1..Len(a.components) : Found(a.components[i], a.query)}

\* the members of a sequence at the positions of a set, in order
RECURSIVE Pick(_, _)
Pick(seq, positions) ==
    IF positions = {} THEN <<>>
    ELSE <<seq[Min(positions)]>> \o Pick(seq, positions \ {Min(positions)})

\* C18: search returns exactly the components whose lower-cased name,
\* description or one of whose lower-cased tags holds the lower-cased query,
\* as summaries of the shape list returns, in registration order, and an
\* empty list when nothing matches.
C18_SearchSummaries ==
    \A a \in SearchAttempts :
        /\ Succeeded(a.result)
        /\ a.result.value = Pick(a.registered, FoundAt(a))

\* the components found, whatever the shape of what is returned for them
C18_SearchFinds ==
    \A a \in SearchAttempts :
        /\ Succeeded(a.result)
        /\ [i \in 1..Len(a.result.value) |-> a.result.value[i].id]
              = Pick([i \in 1..Len(a.components) |-> a.components[i].id], FoundAt(a))

\* a search has found the second of two registered components and not the
\* first, and what it returned for it has no prop names
C18_Witness ==
    /\ result.op = "search_components" /\ result.via = "mcp"
    /\ Len(component_registry.components) = 2
    /\ Len(result.value) = 1
    /\ result.value[1].id = component_registry.components[2].id
    /\ "props" \notin DOMAIN result.value[1]

\* every get call the state admits, with the components looked through
GetAttempts ==
    {[component_id |-> c, components |-> component_registry.components,
      result |-> GetOutcome(c)] : c \in ComponentIdArgs}
    \cup
    {[component_id |-> c, components |-> COMPONENTS,
      result |-> SimpleGetOutcome(c)] : c \in ComponentIdArgs}

WithId(components, component_id) ==
    {i \in 1..Len(components) : components[i].id = component_id}

\* C19: get returns the full component when one with that id is registered,
\* and otherwise signals NotFound to its caller as an error outcome, not as
\* a value returned.
C19_GetOrNotFound ==
    \A a \in GetAttempts :
        IF WithId(a.components, a.component_id) # {}
        THEN /\ Succeeded(a.result)
             /\ \E i \in WithId(a.components, a.component_id) :
                   a.result.value = a.components[i]
        ELSE Failed(a.result)

\* get of an id that is registered
C19_GetRegistered ==
    \A a \in GetAttempts :
        WithId(a.components, a.component_id) # {} =>
            /\ Succeeded(a.result)
            /\ \E i \in WithId(a.components, a.component_id) :
                  a.result.value = a.components[i]

\* get of an id the loaded registry does not hold has returned None
C19_Witness ==
    /\ result.op = "get_component" /\ result.via = "mcp"
    /\ component_registry.components # <<>>
    /\ Succeeded(result)
    /\ result.value = None

IsCreate(r) == r.op = "create_project"

\* the names a create call of this state can have been given
NamesGiven == ProjectNames \cup {DefaultProjectName}

\* what a step that returns from createProject does to the store
C20_Step ==
    IsCreate(result') =>
        /\ Succeeded(result')
        /\ result'.value \notin DOMAIN active_projects
        /\ DOMAIN active_projects' = DOMAIN active_projects \cup {result'.value}
        /\ active_projects'[result'.value].name \in NamesGiven
        /\ active_projects'[result'.value].name \in project_dirs'
        /\ active_projects'[result'.value].components = <<>>
        /\ \A p \in DOMAIN active_projects : active_projects'[p] = active_projects[p]
        /\ component_registry' = component_registry

C21_Step ==
    \A p \in DOMAIN active_projects :
        /\ p \in DOMAIN active_projects'
        /\ IsPrefixOf(active_projects[p].components, active_projects'[p].components)

\* C21: over every sequence of createProject, addInstance, render, list,
\* get, search and load calls, a project's instance list only grows at its
\* end (the list of an earlier state is a prefix of the list of every later
\* state, so no stored instance's componentId, section or props changes), and
\* no project is ever removed.
C21_AppendOnly == [][C21_Step]_vars

\* a search after two adds to one project, two components registered
C21_Witness ==
    /\ result.op = "search_components"
    /\ Len(component_registry.components) = 2
    /\ \E p \in DOMAIN active_projects : Len(active_projects[p].components) = 2

\* C22: a load in which the cache step, the external step and the
\* bootstrap step all fail (the snapshot cannot be persisted) leaves the
\* registry empty, and a load in which a source succeeds surfaces no error:
\* a load that read the cache file, or that ran the bootstrap step to its
\* end, has returned.
C22_AllFailLeavesEmpty ==
    IsLoad(result) =>
        /\ Failed(result) => component_registry.components = <<>>
        /\ (cache_file.exists /\ cache_file.valid) => Succeeded(result)
        /\ PopulatedFrom(result.log) # {} => Succeeded(result)

\* the part of C22 about the loads in which a source succeeds
C22_NoErrorWhenSourceSucceeds ==
    IsLoad(result) =>
        /\ (cache_file.exists /\ cache_file.valid) => Succeeded(result)
        /\ PopulatedFrom(result.log) # {} => Succeeded(result)

\* a load has raised, no cache file read, no external source configured and
\* the snapshot not written, and the registry holds the bootstrap set
C22_Witness ==
    /\ IsLoad(result) /\ Failed(result)
    /\ registry_url = ""
    /\ ~(cache_file.exists /\ cache_file.valid)
    /\ component_registry.components = sample_components

\* the orders in which the props of an instance can be taken
Orders(props) ==
    {[i \in 1..Len(props) |-> props[f[i]]] : f \in Permutations(1..Len(props))}

\* the markups the substitution makes of an instance, over all orders
MarkupsOf(instance) ==
    {ApplyProps(Registered(instance.component_id).html, order) :
        order \in Orders(instance.props)}

\* the props a, b of an instance such that the markup has {{a}} and the
\* value of a holds {{b}}
Injected(instance) ==
    {ab \in Keys(instance.props) \X Keys(instance.props) :
        /\ ab[1] # ab[2]
        /\ Contains(Registered(instance.component_id).html, Placeholder(ab[1]))
        /\ Get(instance.props, ab[1]).t = "str"
        /\ Contains(Get(instance.props, ab[1]).s, Placeholder(ab[2]))}

\* C23: the markup render makes of an instance is the same in whatever
\* order the instance's props are substituted, and a placeholder {{b}} that
\* comes in as part of the value of another prop a is in the output as it
\* came, never replaced by the value of b.
C23_OrderIndependent ==
    \A r \in RenderAttempts :
        Succeeded(r.result) =>
            \A instance \in Range(Renderable(r.project_id)) :
                /\ Cardinality(MarkupsOf(instance)) = 1
                /\ \A line \in Range(MarkupLines(Document(r.result))) \cap MarkupsOf(instance) :
                      \A ab \in Injected(instance) : Contains(line, Placeholder(ab[2]))

\* a render has produced "7-7None" for an instance of pair-001 whose prop a
\* has the value {{b}} and whose prop b has the value 7
C23_Witness ==
    /\ IsRender(result) /\ Succeeded(result)
    /\ <<"7", "-", "7", "None">> \in Range(MarkupLines(Document(result)))
    /\ \E p \in DOMAIN active_projects :
          \E instance \in Range(Renderable(p)) :
              /\ <<"a", "b">> \in Injected(instance)
              /\ Cardinality(MarkupsOf(instance)) = 2

\* the request body that carries the arguments of an add call
AddBody(project_id, component_id, props, section_arg) ==
    [k \in {"project_id", "component_id", "props"}
           \cup (IF section_arg.given THEN {"section"} ELSE {}) |->
        CASE k = "project_id" -> project_id
          [] k = "component_id" -> component_id
          [] k = "props" -> props
          [] k = "section" -> section_arg.v]

\* two results that differ at most in the interface that produced them
SameResult(r, h) ==
    /\ r.status = h.status
    /\ Succeeded(r) => r.value = (IF IsRender(h) THEN Document(h) ELSE h.value)
    /\ Failed(r) => ErrorKind(r) = ErrorKind(h) /\ ErrorSubject(r) = ErrorSubject(h)

\* the tool and the route of addInstance and of render, called in the same
\* state with the same arguments
C24_AddAndRender ==
    /\ \A p \in ProjectIdArgs, c \in ComponentIdArgs, pr \in CallerProps, s \in SectionArgs :
          LET tool == AddOutcome(p, c, pr, s)
              route == HttpAddOutcome(AddBody(p, c, pr, s))
          IN  /\ SameResult(tool.result, route.result)
              /\ tool.active_projects = route.active_projects
    /\ \A p \in ProjectIdArgs :
          SameResult(RenderOutcome(p), HttpRenderOutcome(MkDict(<<"project_id", p>>)))

\* a step of create_project or of the route: the store a create of one of
\* the names makes of the store before it, whichever interface was called
C24_Create ==
    IsCreate(result') =>
        /\ Succeeded(result')
        /\ result'.value = uuid4(DOMAIN active_projects)
        /\ \E project_name \in NamesGiven :
              /\ active_projects' = Store(active_projects, result'.value,
                                          NewProject(result'.value, project_name))
              /\ project_dirs' = project_dirs \cup {project_name}
        /\ component_registry' = component_registry

FromBootstrap(r) ==
    IsLoad(r) /\ Succeeded(r) /\ "bootstrap" \in PopulatedFrom(r.log)

\* after a load from the bootstrap set the cache file is a snapshot that
\* reads back as the registry in memory: same components in the same order,
\* same timestamp
C25_Snapshot ==
    FromBootstrap(result) =>
        /\ cache_file.exists /\ cache_file.valid
        /\ cache_file.data.components = component_registry.components
        /\ ParseRegistry(cache_file.data) = component_registry

\* a load that finds a snapshot takes it and nothing else, and a load that
\* comes next after a load from the bootstrap set leaves the registry as it
\* is
C25_NextLoad ==
    IsLoad(result') =>
        /\ (cache_file.exists /\ cache_file.valid) =>
              /\ Succeeded(result')
              /\ PopulatedFrom(result'.log) = {"cache"}
              /\ component_registry' = ParseRegistry(cache_file.data)
              /\ cache_file' = cache_file
        /\ FromBootstrap(result) =>
              /\ component_registry' = component_registry
              /\ PopulatedFrom(result'.log) = {"cache"}

=============================================================================
